---- MODULE Spec2Model ----
(***************************************************************************)
(* Node-map construction (flattening) of json-ld:                          *)
(* core/src/flattening/node_map.rs.                                        *)
(*                                                                         *)
(* Node-map construction specifications, on the NodeMap state              *)
(* (default_graph, graphs):                                                *)
(*   SpecDeclare  calls of NodeMap::declare_graph and                      *)
(*                NodeMapGraph::declare_node only;                         *)
(*   SpecStore    those calls and NodeMapGraph::merge_node;                *)
(*   Spec         one run of ExpandedDocument::generate_node_map, the      *)
(*                recursion unfolded on an explicit stack, followed by     *)
(*                NodeMap::merge on the map it returns;                    *)
(*   SpecMerge    NodeMap::merge on the node maps that the API can build   *)
(*                over two ids;                                            *)
(*   SpecWith     the calls of SpecStore and NodeMapGraph::merge_with;     *)
(*   SpecIter     a node map built by declare_graph and declare_node, then *)
(*                iterated by Iter or IntoIter.                            *)
(* SpecLang is the calls on a LangString (core/src/lang_string.rs).        *)
(***************************************************************************)
EXTENDS Naturals, Sequences, FiniteSets, TLC

VARIABLES
    default_graph,  \* NodeMap::default_graph : the nodes of the default graph
    graphs,         \* NodeMap::graphs        : graph id -> nodes of that graph
    last,           \* the last call made through the API and what it returned
    calls,          \* number of API calls made
    first_index,    \* history: <<graph, id>> -> first non-null index declared
    stack,          \* generate_node_map: the active calls of the recursion
    status,         \* generate_node_map: "run", "ok", "err", "idle"
    error,          \* the ConflictingIndexes value being propagated
    returned,       \* what generate_node_map / merge handed to the caller
    counter,        \* Namespace: blank identifiers generated so far
    doc,            \* generate_node_map: the top-level objects not visited yet
    seen,           \* history of the traversal (what the input contained)
    declared,       \* history: the ids declare_graph was called with
    iter,           \* Iter / IntoIter: the iterator over the node map
    yielded,        \* the items the iterator has returned, in order
    ls,             \* the LangString held by the caller
    ls_last         \* the last LangString call and what it returned

nodeMapVars == <<default_graph, graphs>>
apiVars == <<last, calls, first_index, declared>>
flatVars == <<doc, stack, status, error, returned, counter, seen>>
iterVars == <<iter, yielded>>
langVars == <<ls, ls_last>>
vars == <<default_graph, graphs, last, calls, first_index, stack, status,
          error, returned, counter, doc, seen, declared, iter, yielded, ls,
          ls_last>>

----------------------------------------------------------------------------
(* Bounds of the model. *)

MaxCalls == 3
MaxTop == 2

----------------------------------------------------------------------------
(* Values of the data model. *)

None == "None"

Ids == {"a", "b"}
IndexOpt == {None, "1", "2"}
Props == {"p"}

EmptyMap == [x \in {} |-> {}]

Put(f, k, v) == [x \in (DOMAIN f) \cup {k} |-> IF x = k THEN v ELSE f[x]]

NoSet == [some |-> FALSE, set |-> {}]
SomeSet(s) == [some |-> TRUE, set |-> s]

\* Indexed<Object>: a value, a node reference, or a list of objects.
ValueObj(v, index) == [k |-> "value", v |-> v, items |-> <<>>, index |-> index]
\* A node object is Indexed<Node>: it has the fields of a node record.
NodeObj(id, index) ==
    [k |-> "node", v |-> id, items |-> <<>>, index |-> index, types |-> <<>>,
     graph |-> [some |-> FALSE, set |-> {}],
     included |-> [some |-> FALSE, set |-> {}],
     props |-> [p \in Props |-> <<>>], rev |-> [p \in Props |-> <<>>]]
ListObj(items, index) == [k |-> "list", v |-> "", items |-> items, index |-> index]

EmptyProps == [p \in Props |-> <<>>]

InSeq(x, s) == \E i \in 1..Len(s) : s[i] = x

\* Properties::insert_unique: add the object under the property unless the
\* property already holds an equal object.
insert_unique(props, prop, obj) ==
    IF InSeq(obj, props[prop]) THEN props
    ELSE [props EXCEPT ![prop] = Append(@, obj)]

RECURSIVE insert_all_unique(_, _, _)
insert_all_unique(props, prop, objs) ==
    IF objs = <<>> THEN props
    ELSE insert_all_unique(insert_unique(props, prop, Head(objs)), prop, Tail(objs))

\* Properties::extend_unique: insert_all_unique for every binding of `other`.
RECURSIVE extend_unique_from(_, _, _)
extend_unique_from(props, other, todo) ==
    IF todo = {} THEN props
    ELSE LET p == CHOOSE q \in todo : TRUE IN
         extend_unique_from(insert_all_unique(props, p, other[p]), other, todo \ {p})

extend_unique(props, other) == extend_unique_from(props, other, DOMAIN other)

\* Node::with_id wrapped by Indexed::new: a record with the id and the index.
with_id(id, index) ==
    [id |-> id, index |-> index, types |-> <<>>, graph |-> NoSet,
     included |-> NoSet, props |-> EmptyProps, rev |-> EmptyProps]

\* Node::set_types.
set_types(rec, types) == [rec EXCEPT !.types = types]

----------------------------------------------------------------------------
(* NodeMapGraph. *)

ConflictingIndexes(id, defined, conflicting) ==
    [node_id |-> id, defined_index |-> defined, conflicting_index |-> conflicting]

\* The error slot of a result that is Ok.
NoError == ConflictingIndexes(None, None, None)

Ok(nodes) == [ok |-> TRUE, err |-> NoError, nodes |-> nodes]
Err(e, nodes) == [ok |-> FALSE, err |-> e, nodes |-> nodes]

\* declare_node comparing the indexes without asking that both are present.
declare_node_strict(nodes, id, index) ==
    IF id \in DOMAIN nodes
    THEN IF nodes[id].index # index
         THEN Err(ConflictingIndexes(id, nodes[id].index, index), nodes)
         ELSE Ok(nodes)
    ELSE Ok(Put(nodes, id, with_id(id, index)))

\* declare_node storing the conflicting index before it fails.
declare_node_dirty(nodes, id, index) ==
    IF id \in DOMAIN nodes
    THEN LET entry == nodes[id] IN
         IF entry.index # None /\ index # None
         THEN IF entry.index # index
              THEN Err(ConflictingIndexes(id, entry.index, index),
                       [nodes EXCEPT ![id].index = index])
              ELSE Ok(nodes)
         ELSE IF entry.index = None /\ index # None
              THEN Ok([nodes EXCEPT ![id].index = index])
              ELSE Ok(nodes)
    ELSE Ok(Put(nodes, id, with_id(id, index)))

\* declare_node storing the supplied index whenever it does not conflict.
declare_node_clearing(nodes, id, index) ==
    IF id \in DOMAIN nodes
    THEN LET entry == nodes[id] IN
         IF entry.index # None /\ index # None /\ entry.index # index
         THEN Err(ConflictingIndexes(id, entry.index, index), nodes)
         ELSE Ok([nodes EXCEPT ![id].index = index])
    ELSE Ok(Put(nodes, id, with_id(id, index)))

declare_node(nodes, id, index) ==
    IF id \in DOMAIN nodes
    THEN LET entry == nodes[id] IN
         IF entry.index # None /\ index # None
         THEN IF entry.index # index
              THEN Err(ConflictingIndexes(id, entry.index, index), nodes)
              ELSE Ok(nodes)
         ELSE IF entry.index = None /\ index # None
              THEN Ok([nodes EXCEPT ![id].index = index])
              ELSE Ok(nodes)
    ELSE Ok(Put(nodes, id, with_id(id, index)))

\* merge_node appending the incoming properties without the uniqueness test.
merge_node_appending(nodes, node) ==
    IF node.id = None THEN nodes
    ELSE LET id == node.id
             entered ==
                 IF id \in DOMAIN nodes
                 THEN IF node.index # None
                      THEN [nodes EXCEPT ![id].index = node.index]
                      ELSE nodes
                 ELSE Put(nodes, id, with_id(id, node.index))
             flat_node == entered[id]
         IN [entered EXCEPT ![id] =
                [flat_node EXCEPT
                    !.types = flat_node.types \o node.types,
                    !.graph = node.graph,
                    !.included = node.included,
                    !.props = [p \in Props |-> flat_node.props[p] \o node.props[p]],
                    !.rev = [p \in Props |-> flat_node.rev[p] \o node.rev[p]]]]

\* merge_node keeping the stored graph content and included nodes when the
\* incoming node has none, and adding to them when it has.
merge_node_union(nodes, node) ==
    IF node.id = None THEN nodes
    ELSE LET id == node.id
             entered ==
                 IF id \in DOMAIN nodes
                 THEN IF node.index # None
                      THEN [nodes EXCEPT ![id].index = node.index]
                      ELSE nodes
                 ELSE Put(nodes, id, with_id(id, node.index))
             flat_node == entered[id]
         IN [entered EXCEPT ![id] =
                [flat_node EXCEPT
                    !.types = flat_node.types \o node.types,
                    !.graph = IF node.graph.some
                              THEN SomeSet(flat_node.graph.set \cup node.graph.set)
                              ELSE flat_node.graph,
                    !.included = IF node.included.some
                                 THEN SomeSet(flat_node.included.set \cup node.included.set)
                                 ELSE flat_node.included,
                    !.props = extend_unique(flat_node.props, node.props),
                    !.rev = extend_unique(flat_node.rev, node.rev)]]

\* merge_node adding only the incoming types the record does not hold.
merge_node_new_types(nodes, node) ==
    IF node.id = None THEN nodes
    ELSE LET id == node.id
             entered ==
                 IF id \in DOMAIN nodes
                 THEN IF node.index # None
                      THEN [nodes EXCEPT ![id].index = node.index]
                      ELSE nodes
                 ELSE Put(nodes, id, with_id(id, node.index))
             flat_node == entered[id]
         IN [entered EXCEPT ![id] =
                [flat_node EXCEPT
                    !.types = flat_node.types \o
                              SelectSeq(node.types, LAMBDA t : ~InSeq(t, flat_node.types)),
                    !.graph = node.graph,
                    !.included = node.included,
                    !.props = extend_unique(flat_node.props, node.props),
                    !.rev = extend_unique(flat_node.rev, node.rev)]]

\* merge_node giving the incoming index to every record of the store.
merge_node_spreading(nodes, node) ==
    IF node.id = None THEN nodes
    ELSE LET id == node.id
             entered ==
                 IF id \in DOMAIN nodes
                 THEN IF node.index # None
                      THEN [x \in DOMAIN nodes |-> [nodes[x] EXCEPT !.index = node.index]]
                      ELSE nodes
                 ELSE Put(nodes, id, with_id(id, node.index))
             flat_node == entered[id]
         IN [entered EXCEPT ![id] =
                [flat_node EXCEPT
                    !.types = flat_node.types \o node.types,
                    !.graph = node.graph,
                    !.included = node.included,
                    !.props = extend_unique(flat_node.props, node.props),
                    !.rev = extend_unique(flat_node.rev, node.rev)]]

\* merge_node setting the index only of a record that has none.
merge_node_first_index(nodes, node) ==
    IF node.id = None THEN nodes
    ELSE LET id == node.id
             entered ==
                 IF id \in DOMAIN nodes
                 THEN IF node.index # None /\ nodes[id].index = None
                      THEN [nodes EXCEPT ![id].index = node.index]
                      ELSE nodes
                 ELSE Put(nodes, id, with_id(id, node.index))
             flat_node == entered[id]
         IN [entered EXCEPT ![id] =
                [flat_node EXCEPT
                    !.types = flat_node.types \o node.types,
                    !.graph = node.graph,
                    !.included = node.included,
                    !.props = extend_unique(flat_node.props, node.props),
                    !.rev = extend_unique(flat_node.rev, node.rev)]]

\* NodeMapGraph::merge_node.
merge_node(nodes, node) ==
    IF node.id = None THEN nodes
    ELSE LET id == node.id
             entered ==
                 IF id \in DOMAIN nodes
                 THEN IF node.index # None
                      THEN [nodes EXCEPT ![id].index = node.index]
                      ELSE nodes
                 ELSE Put(nodes, id, with_id(id, node.index))
             flat_node == entered[id]
         IN [entered EXCEPT ![id] =
                [flat_node EXCEPT
                    !.types = flat_node.types \o node.types,
                    !.graph = node.graph,
                    !.included = node.included,
                    !.props = extend_unique(flat_node.props, node.props),
                    !.rev = extend_unique(flat_node.rev, node.rev)]]

\* merge_with visits the nodes of `other` in the order its HashMap yields them.
RECURSIVE merge_with(_, _, _)
merge_with(nodes, other, order) ==
    IF order = <<>> THEN nodes
    ELSE merge_with(merge_node(nodes, other[Head(order)]), other, Tail(order))

----------------------------------------------------------------------------
(* NodeMap. *)

\* graph answering with the default graph for an id that names no graph.
graph_or_default(id) ==
    IF id = None THEN SomeSet(default_graph)
    ELSE IF id \in DOMAIN graphs THEN SomeSet(graphs[id]) ELSE SomeSet(default_graph)

\* NodeMap::graph: the default graph for None, the named graph if there is
\* one for Some(id).
graph(id) ==
    IF id = None THEN SomeSet(default_graph)
    ELSE IF id \in DOMAIN graphs THEN SomeSet(graphs[id]) ELSE NoSet

\* declare_graph inserting an empty graph also when the id has one.
declare_graph_reset(gs, id) == Put(gs, id, EmptyMap)

declare_graph(gs, id) ==
    IF id \in DOMAIN gs THEN gs ELSE Put(gs, id, EmptyMap)

\* The sequences enumerating a finite set once each: the orders in which a
\* HashMap may yield its keys.
RECURSIVE Orders(_)
Orders(S) ==
    IF S = {} THEN {<<>>}
    ELSE UNION {{<<x>> \o o : o \in Orders(S \ {x})} : x \in S}

\* merge leaving its loop after the first named graph.
merge_first(result, gs, order) ==
    IF order = <<>> THEN result
    ELSE merge_with(result, gs[Head(order)[1]], Head(order)[2])

\* NodeMap::merge. `order` is the order in which the HashMap of the named
\* graphs yields them, each with the order in which its nodes are yielded:
\* a sequence of <<graph id, sequence of node ids>>.
RECURSIVE merge(_, _, _)
merge(result, gs, order) ==
    IF order = <<>> THEN result
    ELSE merge(merge_with(result, gs[Head(order)[1]], Head(order)[2]),
               gs, Tail(order))

\* The orders NodeMap::merge may follow on the named graphs `gs`.
RECURSIVE WithNodeOrders(_, _)
WithNodeOrders(gs, gorder) ==
    IF gorder = <<>> THEN {<<>>}
    ELSE {<<<<Head(gorder), no>>>> \o rest :
            no \in Orders(DOMAIN gs[Head(gorder)]),
            rest \in WithNodeOrders(gs, Tail(gorder))}

MergeOrders(gs) == UNION {WithNodeOrders(gs, go) : go \in Orders(DOMAIN gs)}

----------------------------------------------------------------------------
(* Iter and IntoIter: the iterators over the graphs of a NodeMap. *)

\* No iterator has been made.
NoIter == [kind |-> "none", default_graph |-> [some |-> FALSE, nodes |-> EmptyMap],
           graphs |-> EmptyMap, done |-> FALSE]

\* NodeMap::iter: the iterator holds the default graph and the named graphs.
NodeMap_iter ==
    [kind |-> "ref", default_graph |-> [some |-> TRUE, nodes |-> default_graph],
     graphs |-> graphs, done |-> FALSE]

\* NodeMap::into_iter.
NodeMap_into_iter ==
    [kind |-> "value", default_graph |-> [some |-> TRUE, nodes |-> default_graph],
     graphs |-> graphs, done |-> FALSE]

\* The item Some((id, graph)) and the item None of Iterator::next.
SomeItem(id, nodes) == [some |-> TRUE, id |-> id, nodes |-> nodes]
NoItem == [some |-> FALSE, id |-> None, nodes |-> EmptyMap]

\* next yielding the named graphs before the default graph.
Iter_next_named_first(it, id) ==
    IF DOMAIN it.graphs # {}
    THEN [item |-> SomeItem(id, it.graphs[id]),
          it |-> [it EXCEPT !.graphs = [x \in DOMAIN it.graphs \ {id} |-> it.graphs[x]]]]
    ELSE IF it.default_graph.some
    THEN [item |-> SomeItem(None, it.default_graph.nodes),
          it |-> [it EXCEPT !.default_graph = [some |-> FALSE, nodes |-> EmptyMap]]]
    ELSE [item |-> NoItem, it |-> it]

\* Iter::next. id is the key the iterator of the HashMap yields next (any key
\* left in it).
Iter_next(it, id) ==
    IF it.default_graph.some
    THEN [item |-> SomeItem(None, it.default_graph.nodes),
          it |-> [it EXCEPT !.default_graph = [some |-> FALSE, nodes |-> EmptyMap]]]
    ELSE IF DOMAIN it.graphs # {}
    THEN [item |-> SomeItem(id, it.graphs[id]),
          it |-> [it EXCEPT !.graphs = [x \in DOMAIN it.graphs \ {id} |-> it.graphs[x]]]]
    ELSE [item |-> NoItem, it |-> it]

\* IntoIter::next.
IntoIter_next(it, id) ==
    IF it.default_graph.some
    THEN [item |-> SomeItem(None, it.default_graph.nodes),
          it |-> [it EXCEPT !.default_graph = [some |-> FALSE, nodes |-> EmptyMap]]]
    ELSE IF DOMAIN it.graphs # {}
    THEN [item |-> SomeItem(id, it.graphs[id]),
          it |-> [it EXCEPT !.graphs = [x \in DOMAIN it.graphs \ {id} |-> it.graphs[x]]]]
    ELSE [item |-> NoItem, it |-> it]

----------------------------------------------------------------------------
(* LangString (core/src/lang_string.rs). *)

\* No LangString has been built.
NoLangString == [exists |-> FALSE, data |-> "", language |-> None, direction |-> None]

NoLangCall == [op |-> "none", language |-> None, direction |-> None, ok |-> TRUE,
               pre |-> NoLangString]

Languages == {None, "en", "fr"}
Directions == {None, "ltr", "rtl"}
Data == {"s", "t"}

\* LangString::new: Ok(Self) or Err(data).
LangString_new(data, language, direction) ==
    IF language # None \/ direction # None
    THEN [ok |-> TRUE,
          value |-> [exists |-> TRUE, data |-> data, language |-> language,
                     direction |-> direction]]
    ELSE [ok |-> FALSE, value |-> NoLangString]

\* set_language testing the language, not the direction, of the string.
set_language_own(self, language) ==
    IF self.language # None \/ language # None
    THEN [ok |-> TRUE, value |-> [self EXCEPT !.language = language]]
    ELSE [ok |-> FALSE, value |-> self]

\* LangString::set_language.
set_language(self, language) ==
    IF self.direction # None \/ language # None
    THEN [ok |-> TRUE, value |-> [self EXCEPT !.language = language]]
    ELSE [ok |-> FALSE, value |-> self]

\* LangString::set_direction.
set_direction(self, direction) ==
    IF direction # None \/ self.language # None
    THEN [ok |-> TRUE, value |-> [self EXCEPT !.direction = direction]]
    ELSE [ok |-> FALSE, value |-> self]

\* LangString::set.
set(self, language, direction) ==
    IF direction # None \/ language # None
    THEN [ok |-> TRUE,
          value |-> [self EXCEPT !.language = language, !.direction = direction]]
    ELSE [ok |-> FALSE, value |-> self]

LangCall(op, language, direction, r) ==
    [op |-> op, language |-> language, direction |-> direction, ok |-> r.ok,
     pre |-> ls]

\* let s = LangString::new(..): on Err the caller holds what it held.
New(data, language, direction) ==
    /\ LET r == LangString_new(data, language, direction) IN
        /\ ls' = IF r.ok THEN r.value ELSE ls
        /\ ls_last' = LangCall("new", language, direction, r)
    /\ UNCHANGED <<nodeMapVars, apiVars, flatVars, iterVars>>

SetLanguage(language) ==
    /\ ls.exists
    /\ LET r == set_language(ls, language) IN
        /\ ls' = r.value
        /\ ls_last' = LangCall("set_language", language, None, r)
    /\ UNCHANGED <<nodeMapVars, apiVars, flatVars, iterVars>>

SetDirection(direction) ==
    /\ ls.exists
    /\ LET r == set_direction(ls, direction) IN
        /\ ls' = r.value
        /\ ls_last' = LangCall("set_direction", None, direction, r)
    /\ UNCHANGED <<nodeMapVars, apiVars, flatVars, iterVars>>

Set(language, direction) ==
    /\ ls.exists
    /\ LET r == set(ls, language, direction) IN
        /\ ls' = r.value
        /\ ls_last' = LangCall("set", language, direction, r)
    /\ UNCHANGED <<nodeMapVars, apiVars, flatVars, iterVars>>

----------------------------------------------------------------------------
(* Calls through the public API of NodeMap and NodeMapGraph. *)

\* graph_mut(g).unwrap(): the nodes of the graph named g.
Store(g) == IF g = None THEN default_graph ELSE graphs[g]

GraphKeys == {None} \cup DOMAIN graphs

SetStore(g, nodes) ==
    IF g = None
    THEN default_graph' = nodes /\ graphs' = graphs
    ELSE graphs' = [graphs EXCEPT ![g] = nodes] /\ default_graph' = default_graph

\* Nodes handed to merge_node.
Plain(id, index) == with_id(id, index)

Full(id, index) ==
    [id |-> id, index |-> index, types |-> <<"T">>,
     graph |-> SomeSet({NodeObj("b", None)}),
     included |-> SomeSet({"b"}),
     props |-> [p \in Props |-> <<ValueObj("v", None), NodeObj("a", None)>>],
     rev |-> [p \in Props |-> <<NodeObj("b", None)>>]]

Other(id, index) ==
    [id |-> id, index |-> index, types |-> <<"T">>,
     graph |-> NoSet,
     included |-> NoSet,
     props |-> [p \in Props |-> <<NodeObj("a", None)>>],
     rev |-> [p \in Props |-> <<NodeObj("a", None)>>]]

InputNodes ==
    {Plain(None, None)}
    \cup {Plain(id, index) : id \in Ids, index \in {None, "2"}}
    \cup {Full(id, index) : id \in Ids, index \in {None, "2"}}
    \cup {Other(id, index) : id \in Ids, index \in {None, "2"}}

NodeMapNow == [default |-> default_graph, graphs |-> graphs]

\* The nodes of graph g in the node map m (a record of NodeMapNow's shape).
StoreIn(m, g) == IF g = None THEN m.default ELSE m.graphs[g]

WithStore(m, g, nodes) ==
    IF g = None THEN [m EXCEPT !.default = nodes]
    ELSE [m EXCEPT !.graphs = [@ EXCEPT ![g] = nodes]]

SetNodeMap(m) == default_graph' = m.default /\ graphs' = m.graphs

\* What is remembered of the call before the last one.
Brief(c) ==
    [op |-> c.op, g |-> c.g, id |-> c.id, index |-> c.index, node |-> c.node,
     ok |-> c.ok, err |-> c.err]

Call(op, g, id, index, node, r) ==
    [op |-> op, g |-> g, id |-> id, index |-> index, node |-> node,
     ok |-> r.ok, err |-> r.err, pre |-> NodeMapNow, prev |-> Brief(last)]

NoCall ==
    [op |-> "new", g |-> None, id |-> None, index |-> None,
     node |-> Plain(None, None), ok |-> TRUE, err |-> NoError,
     pre |-> [default |-> EmptyMap, graphs |-> EmptyMap],
     prev |-> [op |-> "new", g |-> None, id |-> None, index |-> None,
               node |-> Plain(None, None), ok |-> TRUE, err |-> NoError]]

DeclareGraph(id) ==
    /\ calls < MaxCalls
    /\ graphs' = declare_graph(graphs, id)
    /\ default_graph' = default_graph
    /\ last' = Call("declare_graph", id, None, None, Plain(None, None), Ok(EmptyMap))
    /\ calls' = calls + 1
    /\ declared' = declared \cup {id}
    /\ UNCHANGED first_index
    /\ UNCHANGED flatVars
    /\ UNCHANGED <<iterVars, langVars>>

DeclareNode(g, id, index) ==
    /\ calls < MaxCalls
    /\ g \in GraphKeys
    /\ LET r == declare_node(Store(g), id, index) IN
        /\ SetStore(g, r.nodes)
        /\ last' = Call("declare_node", g, id, index, Plain(None, None), r)
    /\ first_index' =
           IF index # None /\ <<g, id>> \notin DOMAIN first_index
           THEN Put(first_index, <<g, id>>, index)
           ELSE first_index
    /\ calls' = calls + 1
    /\ UNCHANGED declared
    /\ UNCHANGED flatVars
    /\ UNCHANGED <<iterVars, langVars>>

MergeNode(g, node) ==
    /\ calls < MaxCalls
    /\ g \in GraphKeys
    /\ SetStore(g, merge_node(Store(g), node))
    /\ last' = Call("merge_node", g, None, None, node, Ok(EmptyMap))
    /\ calls' = calls + 1
    /\ UNCHANGED <<first_index, declared>>
    /\ UNCHANGED flatVars
    /\ UNCHANGED <<iterVars, langVars>>

\* NodeMap::new, no traversal running.
InitStore ==
    /\ default_graph = EmptyMap
    /\ graphs = EmptyMap
    /\ last = NoCall
    /\ calls = 0
    /\ first_index = EmptyMap
    /\ declared = {}
    /\ iter = NoIter
    /\ yielded = <<>>
    /\ ls = NoLangString
    /\ ls_last = NoLangCall
    /\ stack = <<>>
    /\ status = "idle"
    /\ error = NoError
    /\ returned = [kind |-> "none", map |-> [default |-> EmptyMap, graphs |-> EmptyMap],
                   nodes |-> EmptyMap, err |-> NoError, order |-> <<>>]
    /\ counter = 0
    /\ doc = <<>>
    /\ seen = [props |-> {}, graph |-> {}, rev |-> {}, has_graph |-> {}, once |-> {},
               twice |-> {}, decl |-> {}, conflict |-> NoError,
               at_error |-> [map |-> [default |-> EmptyMap, graphs |-> EmptyMap],
                             doc |-> <<>>, stack |-> <<>>]]

NextDeclare ==
    \/ \E id \in Ids : DeclareGraph(id)
    \/ \E g \in {None} \cup Ids, id \in Ids, index \in IndexOpt : DeclareNode(g, id, index)

NextStore ==
    \/ \E id \in Ids : DeclareGraph(id)
    \/ \E g \in {None} \cup Ids, id \in Ids, index \in IndexOpt : DeclareNode(g, id, index)
    \/ \E g \in {None} \cup Ids, node \in InputNodes : MergeNode(g, node)

SpecDeclare == InitStore /\ [][NextDeclare]_vars

SpecStore == InitStore /\ [][NextStore]_vars

----------------------------------------------------------------------------
(* Iteration over a NodeMap built through the API. *)

\* node_map.iter() / (&node_map).into_iter().
Iterate ==
    /\ iter.kind = "none"
    /\ iter' = NodeMap_iter
    /\ yielded' = <<>>
    /\ UNCHANGED <<nodeMapVars, apiVars, flatVars, langVars>>

\* node_map.into_iter(): the node map is moved into the iterator.
IntoIterate ==
    /\ iter.kind = "none"
    /\ iter' = NodeMap_into_iter
    /\ yielded' = <<>>
    /\ UNCHANGED <<nodeMapVars, apiVars, flatVars, langVars>>

\* One call of next on the iterator, until it has returned None.
IterNext ==
    /\ iter.kind # "none"
    /\ ~iter.done
    /\ \E id \in (IF DOMAIN iter.graphs = {} THEN {None} ELSE DOMAIN iter.graphs) :
          LET r == IF iter.kind = "ref" THEN Iter_next(iter, id)
                   ELSE IntoIter_next(iter, id)
          IN /\ iter' = [r.it EXCEPT !.done = ~r.item.some]
             /\ yielded' = IF r.item.some
                           THEN Append(yielded, <<r.item.id, r.item.nodes>>)
                           ELSE yielded
    /\ UNCHANGED <<nodeMapVars, apiVars, flatVars, langVars>>

\* The node map is built before it is iterated: the iterator borrows it or
\* owns it.
NextIter ==
    \/ iter.kind = "none" /\ \E id \in Ids : DeclareGraph(id)
    \/ iter.kind = "none" /\ \E g \in {None} \cup Ids, id \in Ids, index \in IndexOpt :
                                DeclareNode(g, id, index)
    \/ Iterate
    \/ IntoIterate
    \/ IterNext

SpecIter == InitStore /\ [][NextIter]_vars

----------------------------------------------------------------------------
(* Calls on a LangString. *)

NextLang ==
    \/ \E data \in Data, language \in Languages, direction \in Directions :
          New(data, language, direction)
    \/ \E language \in Languages : SetLanguage(language)
    \/ \E direction \in Directions : SetDirection(direction)
    \/ \E language \in Languages, direction \in Directions : Set(language, direction)

SpecLang == InitStore /\ [][NextLang]_vars

----------------------------------------------------------------------------
(* The expanded document handed to generate_node_map. *)

\* Indexed<Object> of the input: a value, a list of objects, or a node with
\* its types, graph content, included nodes, properties and reverse
\* properties (each a sequence of <<property, objects>>).
InObject(k, v, index, types, items, g, included, props, rev) ==
    [k |-> k, v |-> v, index |-> index, types |-> types, items |-> items,
     graph |-> g, included |-> included, props |-> props, rev |-> rev]

InValue(v, index) == InObject("value", v, index, <<>>, <<>>, NoSet, NoSet, <<>>, <<>>)
InList(items, index) == InObject("list", "", index, <<>>, items, NoSet, NoSet, <<>>, <<>>)
InNode(id, index, types, g, included, props, rev) ==
    InObject("node", id, index, types, <<>>, g, included, props, rev)

\* A node with no content.
Leaf(id, index, types) == InNode(id, index, types, NoSet, NoSet, <<>>, <<>>)

LeafNodes ==
    {Leaf("a", index, types) : index \in IndexOpt, types \in {<<>>, <<"T">>}}
    \cup {Leaf("b", None, <<>>), Leaf(None, None, <<>>)}

\* The nodes and the other objects met inside a node.
InnerNodes == {Leaf("a", "2", <<>>), Leaf("b", None, <<>>), Leaf(None, None, <<>>)}
InnerValues == {InValue("v", None), InValue("v", "1")}
InnerLists == {InList(<<Leaf("b", None, <<>>)>>, "1")}

\* Node "a" holding one object: as graph content, as an included node, as
\* the object of property p, or as the subject of reverse property p.
Parents ==
    UNION {
        {InNode("a", index, <<>>, SomeSet({x}), NoSet, <<>>, <<>>) :
            x \in InnerNodes \cup InnerValues}
        \cup {InNode("a", index, <<>>, NoSet, SomeSet({x}), <<>>, <<>>) :
            x \in InnerNodes}
        \cup {InNode("a", index, <<>>, NoSet, NoSet, <<<<"p", <<x>>>>>>, <<>>) :
            x \in InnerNodes \cup InnerValues \cup InnerLists}
        \cup {InNode("a", index, <<>>, NoSet, NoSet, <<>>, <<<<"p", <<x>>>>>>) :
            x \in InnerNodes}
        : index \in {None, "1"}}

TopObjects ==
    LeafNodes \cup Parents
    \cup {InValue("v", None), InList(<<Leaf("a", "2", <<>>)>>, None)}

RECURSIVE SeqsUpTo(_, _)
SeqsUpTo(S, n) ==
    IF n = 0 THEN {<<>>}
    ELSE LET shorter == SeqsUpTo(S, n - 1) IN
         shorter \cup {Append(q, x) : q \in shorter, x \in S}

\* The documents of at most n top-level objects.
Documents(n) == SeqsUpTo(TopObjects, n) \ {<<>>}

----------------------------------------------------------------------------
(* ExpandedDocument::generate_node_map.  A frame of `stack` is one active   *)
(* call of extend_node_map on a list or of extend_node_map_from_node, with  *)
(* its local variables and the part of its input it has not visited yet.    *)

BlankSeq == <<"_:b0", "_:b1", "_:b2", "_:b3", "_:b4", "_:b5", "_:b6">>

\* Namespace::assign_node_id: a valid id is kept, a node without id gets the
\* next identifier of the generator.
assign_node_id(id, n) == IF id = None THEN BlankSeq[n + 1] ELSE id

Frame(k, id, g, index, ph, src, members, objs) ==
    [k |-> k, id |-> id, g |-> g, index |-> index, ph |-> ph, src |-> src,
     members |-> members, objs |-> objs, pi |-> 0, prop |-> None,
     fg |-> {}, fo |-> <<>>]

NodeFrame(id, g, node) ==
    IF node.graph.some
    THEN Frame("node", id, g, None, "graph", node, node.graph.set, <<>>)
    ELSE Frame("node", id, g, None, "incl", node, node.included.set, <<>>)

ListFrame(g, list) == Frame("list", None, g, list.index, "items", list, {}, list.items)

Top == stack[Len(stack)]
Pop(st) == SubSeq(st, 1, Len(st) - 1)
SetTop(st, f) == [st EXCEPT ![Len(st)] = f]

\* The loop the traversal is in.
Slot ==
    IF stack = <<>> THEN "top"
    ELSE IF Top.k = "list" THEN "item"
    ELSE IF Top.ph = "graph" THEN "graph"
    ELSE IF Top.ph = "incl" THEN "included"
    ELSE IF Top.ph = "props" /\ Top.prop # None THEN "object"
    ELSE IF Top.ph = "rev" /\ Top.prop # None THEN "subject"
    ELSE "none"

\* The objects the loop may take next: the next one of a sequence, any one
\* left of a HashSet.
Candidates ==
    IF Slot = "top" THEN (IF doc = <<>> THEN {} ELSE {Head(doc)})
    ELSE IF Slot \in {"graph", "included"} THEN Top.members
    ELSE IF Slot \in {"item", "object", "subject"} /\ Top.objs # <<>>
         THEN {Head(Top.objs)}
    ELSE {}

\* The stack and the document once the loop has taken obj.
StackAfter(obj) ==
    IF Slot = "top" THEN stack
    ELSE IF Slot \in {"graph", "included"}
         THEN SetTop(stack, [Top EXCEPT !.members = @ \ {obj}])
    ELSE SetTop(stack, [Top EXCEPT !.objs = Tail(@)])

DocAfter == IF Slot = "top" THEN Tail(doc) ELSE doc

\* The graph members declared in the graph of their container.
ChildGraph_container ==
    IF stack = <<>> THEN None ELSE Top.g

\* Everything declared in the default graph.
ChildGraph_default == None

\* The active graph handed to the call that visits the next object.
ChildGraph ==
    IF stack = <<>> THEN None
    ELSE IF Top.k = "node" /\ Top.ph = "graph" THEN Top.id
    ELSE Top.g

\* The edge of a reverse property stored in the reverse properties of the
\* node that declares it.
Installed_reverse(nodes, subject_id, prop, id) ==
    [nodes EXCEPT ![id].rev = insert_unique(@, prop, NodeObj(subject_id, None))]

\* A reverse property of node id with the subject subject_id: the subject
\* gets the forward edge prop -> reference to id.
Installed(nodes, subject_id, prop, id) ==
    [nodes EXCEPT ![subject_id].props = insert_unique(@, prop, NodeObj(id, None))]

\* What the caller whose frame is on top of `st` does with the flattened
\* object `obj` its callee returned; m is the node map.
Received(st, m, obj) ==
    IF st = <<>> THEN [stack |-> st, map |-> m]
    ELSE LET f == st[Len(st)] IN
         IF f.k = "list"
         THEN [stack |-> SetTop(st, [f EXCEPT !.fo = Append(@, obj)]), map |-> m]
         ELSE IF f.ph = "graph"
         THEN [stack |-> SetTop(st, [f EXCEPT !.fg = @ \cup {obj}]), map |-> m]
         ELSE IF f.ph = "incl"
         THEN [stack |-> st, map |-> m]
         ELSE IF f.ph = "props"
         THEN [stack |-> SetTop(st, [f EXCEPT !.fo = Append(@, obj)]), map |-> m]
         ELSE LET subject_id == obj.v IN
              [stack |-> st,
               map |-> WithStore(m, f.g,
                          Installed(StoreIn(m, f.g), subject_id, f.prop, f.id))]

\* History: the node whose call of extend_node_map_from_node is the innermost
\* active one, as <<the loop it is in, the graph it was declared in, its id>>;
\* <<"top", None, None>> when no node is being visited.
Container ==
    LET S == {i \in 1..Len(stack) : stack[i].k = "node"} IN
    IF S = {} THEN <<"top", None, None>>
    ELSE LET f == stack[CHOOSE i \in S : \A j \in S : j <= i] IN
         <<f.ph, f.g, f.id>>

\* History: the flattened object a node received as a graph member or as a
\* property object.
Noted(st, obj) ==
    IF st = <<>> THEN seen
    ELSE LET f == st[Len(st)] IN
         IF f.k = "node" /\ f.ph = "graph"
         THEN [seen EXCEPT !.graph = @ \cup {<<f.g, f.id, obj>>}]
         ELSE IF f.k = "node" /\ f.ph = "props"
         THEN [seen EXCEPT !.props = @ \cup {<<f.g, f.id, f.prop, obj>>}]
         ELSE seen

Running == status = "run"

\* extend_node_map on a value: copied with its index.
VisitValue ==
    /\ Running
    /\ \E obj \in Candidates :
        /\ obj.k = "value"
        /\ LET got == Received(StackAfter(obj), NodeMapNow, ValueObj(obj.v, obj.index)) IN
            /\ stack' = got.stack
            /\ SetNodeMap(got.map)
        /\ seen' = Noted(stack, ValueObj(obj.v, obj.index))
    /\ doc' = DocAfter
    /\ UNCHANGED <<status, error, returned, counter>>
    /\ UNCHANGED apiVars
    /\ UNCHANGED <<iterVars, langVars>>

\* extend_node_map on a list: flat_list starts empty.
VisitList ==
    /\ Running
    /\ \E obj \in Candidates :
        /\ obj.k = "list"
        /\ stack' = Append(StackAfter(obj), ListFrame(ChildGraph, obj))
    /\ doc' = DocAfter
    /\ UNCHANGED <<status, error, returned, counter, seen>>
    /\ UNCHANGED nodeMapVars
    /\ UNCHANGED apiVars
    /\ UNCHANGED <<iterVars, langVars>>

\* extend_node_map on a list: every item is flattened, the list is returned.
EndList ==
    /\ Running
    /\ stack # <<>>
    /\ Top.k = "list"
    /\ Top.objs = <<>>
    /\ LET got == Received(Pop(stack), NodeMapNow, ListObj(Top.fo, Top.index)) IN
        /\ stack' = got.stack
        /\ SetNodeMap(got.map)
    /\ seen' = Noted(Pop(stack), ListObj(Top.fo, Top.index))
    /\ UNCHANGED <<doc, status, error, returned, counter>>
    /\ UNCHANGED apiVars
    /\ UNCHANGED <<iterVars, langVars>>

\* The error of a failed declaration dropped, the traversal going on.
Abort_swallowed(e) ==
    /\ status' = "run"
    /\ error' = e
    /\ UNCHANGED <<doc, stack, counter, returned, first_index, declared>>
    /\ UNCHANGED nodeMapVars

\* What a failed declaration does to the traversal: the error is returned
\* to the caller by `?`, nothing else is done.
Abort(e) ==
    /\ status' = "err"
    /\ error' = e
    /\ UNCHANGED <<doc, stack, counter, returned, first_index, declared>>
    /\ UNCHANGED nodeMapVars

\* History: the conflict the declaration of id with `index` in graph g is,
\* given the indexes declared before it.
Expected(g, id, index) ==
    IF <<g, id>> \in DOMAIN first_index /\ index # None
       /\ first_index[<<g, id>>] # index
    THEN ConflictingIndexes(id, first_index[<<g, id>>], index)
    ELSE NoError

\* The record of node id in `nodes` once the traversal has declared it:
\* its types are those of this declaration.
Typed(nodes, id, types) == [nodes EXCEPT ![id] = set_types(@, types)]

\* extend_node_map_from_node up to its first loop: the id is assigned, the
\* node declared in the active graph, its types set, and the graph named by
\* the node declared when the node has graph content.
EnterNode ==
    /\ Running
    /\ \E obj \in Candidates :
        /\ obj.k = "node"
        /\ LET id == assign_node_id(obj.v, counter)
               g == ChildGraph
               r == declare_node(Store(g), id, obj.index)
               m1 == WithStore(NodeMapNow, g, Typed(r.nodes, id, obj.types))
               m2 == IF obj.graph.some
                     THEN [m1 EXCEPT !.graphs = declare_graph(@, id)]
                     ELSE m1
           IN IF r.ok
              THEN /\ SetNodeMap(m2)
                   /\ stack' = Append(StackAfter(obj), NodeFrame(id, g, obj))
                   /\ doc' = DocAfter
                   /\ counter' = IF obj.v = None THEN counter + 1 ELSE counter
                   /\ first_index' =
                         IF obj.index # None /\ <<g, id>> \notin DOMAIN first_index
                         THEN Put(first_index, <<g, id>>, obj.index)
                         ELSE first_index
                   /\ declared' = IF obj.graph.some THEN declared \cup {id}
                                  ELSE declared
                   /\ seen' = [seen EXCEPT
                         !.rev = IF Slot = "subject"
                                 THEN @ \cup {<<g, Top.id, Top.prop, id>>}
                                 ELSE @,
                         !.has_graph = IF obj.graph.some THEN @ \cup {<<g, id>>} ELSE @,
                         !.once = @ \cup {<<g, id>>},
                         !.twice = IF <<g, id>> \in seen.once
                                   THEN @ \cup {<<g, id>>} ELSE @,
                         !.decl = @ \cup {<<Container[1], Container[2],
                                            Container[3], id>>},
                         !.conflict = Expected(g, id, obj.index)]
                   /\ UNCHANGED <<status, error, returned>>
              ELSE /\ Abort(r.err)
                   /\ seen' = [seen EXCEPT
                         !.conflict = Expected(g, id, obj.index),
                         !.at_error = [map |-> NodeMapNow, doc |-> doc,
                                       stack |-> stack]]
    /\ UNCHANGED <<last, calls>>
    /\ UNCHANGED <<iterVars, langVars>>

\* The graph content replaced by that of the last declaration.
Accumulated_last(stored, flat_graph) == SomeSet(flat_graph)

\* The graph content of a record that holds `stored` once flat_graph is
\* added to it.
Accumulated(stored, flat_graph) ==
    IF stored.some THEN SomeSet(stored.set \cup flat_graph) ELSE SomeSet(flat_graph)

\* The members of the graph content are flattened: flat_graph is added to
\* the graph content the record holds, or becomes it.
EndGraph ==
    /\ Running
    /\ stack # <<>>
    /\ Top.k = "node"
    /\ Top.ph = "graph"
    /\ Top.members = {}
    /\ LET nodes == Store(Top.g) IN
       SetNodeMap(WithStore(NodeMapNow, Top.g,
           [nodes EXCEPT ![Top.id].graph = Accumulated(@, Top.fg)]))
    /\ stack' = SetTop(stack, [Top EXCEPT !.ph = "incl", !.fg = {},
                                          !.members = Top.src.included.set])
    /\ UNCHANGED <<doc, status, error, returned, counter, seen>>
    /\ UNCHANGED apiVars
    /\ UNCHANGED <<iterVars, langVars>>

\* The included nodes are all visited.
EndIncluded ==
    /\ Running
    /\ stack # <<>>
    /\ Top.k = "node"
    /\ Top.ph = "incl"
    /\ Top.members = {}
    /\ stack' = SetTop(stack, [Top EXCEPT !.ph = "props", !.pi = 0])
    /\ UNCHANGED <<doc, status, error, returned, counter, seen>>
    /\ UNCHANGED nodeMapVars
    /\ UNCHANGED apiVars
    /\ UNCHANGED <<iterVars, langVars>>

\* The loop over the forward properties takes the next property.
BeginProperty ==
    /\ Running
    /\ stack # <<>>
    /\ Top.k = "node"
    /\ Top.ph = "props"
    /\ Top.prop = None
    /\ Top.pi < Len(Top.src.props)
    /\ stack' = SetTop(stack, [Top EXCEPT !.pi = @ + 1,
                                          !.prop = Top.src.props[Top.pi + 1][1],
                                          !.objs = Top.src.props[Top.pi + 1][2],
                                          !.fo = <<>>])
    /\ UNCHANGED <<doc, status, error, returned, counter, seen>>
    /\ UNCHANGED nodeMapVars
    /\ UNCHANGED apiVars
    /\ UNCHANGED <<iterVars, langVars>>

\* The objects of the property replaced by those of the last declaration.
Inserted_last(props, prop, flat_objects) == [props EXCEPT ![prop] = flat_objects]

\* The properties of `props` once flat_objects have been inserted under prop.
Inserted(props, prop, flat_objects) == insert_all_unique(props, prop, flat_objects)

\* The objects of the property are flattened: they are inserted in the
\* record of the node.
EndProperty ==
    /\ Running
    /\ stack # <<>>
    /\ Top.k = "node"
    /\ Top.ph = "props"
    /\ Top.prop # None
    /\ Top.objs = <<>>
    /\ LET nodes == Store(Top.g) IN
       SetNodeMap(WithStore(NodeMapNow, Top.g,
           [nodes EXCEPT ![Top.id].props = Inserted(@, Top.prop, Top.fo)]))
    /\ stack' = SetTop(stack, [Top EXCEPT !.prop = None, !.fo = <<>>])
    /\ UNCHANGED <<doc, status, error, returned, counter, seen>>
    /\ UNCHANGED apiVars
    /\ UNCHANGED <<iterVars, langVars>>

\* The forward properties are all visited.
EndProperties ==
    /\ Running
    /\ stack # <<>>
    /\ Top.k = "node"
    /\ Top.ph = "props"
    /\ Top.prop = None
    /\ Top.pi = Len(Top.src.props)
    /\ stack' = SetTop(stack, [Top EXCEPT !.ph = "rev", !.pi = 0])
    /\ UNCHANGED <<doc, status, error, returned, counter, seen>>
    /\ UNCHANGED nodeMapVars
    /\ UNCHANGED apiVars
    /\ UNCHANGED <<iterVars, langVars>>

\* The loop over the reverse properties takes the next property.
BeginReverse ==
    /\ Running
    /\ stack # <<>>
    /\ Top.k = "node"
    /\ Top.ph = "rev"
    /\ Top.prop = None
    /\ Top.pi < Len(Top.src.rev)
    /\ stack' = SetTop(stack, [Top EXCEPT !.pi = @ + 1,
                                          !.prop = Top.src.rev[Top.pi + 1][1],
                                          !.objs = Top.src.rev[Top.pi + 1][2]])
    /\ UNCHANGED <<doc, status, error, returned, counter, seen>>
    /\ UNCHANGED nodeMapVars
    /\ UNCHANGED apiVars
    /\ UNCHANGED <<iterVars, langVars>>

\* The subjects of the reverse property are all visited.
EndReverse ==
    /\ Running
    /\ stack # <<>>
    /\ Top.k = "node"
    /\ Top.ph = "rev"
    /\ Top.prop # None
    /\ Top.objs = <<>>
    /\ stack' = SetTop(stack, [Top EXCEPT !.prop = None])
    /\ UNCHANGED <<doc, status, error, returned, counter, seen>>
    /\ UNCHANGED nodeMapVars
    /\ UNCHANGED apiVars
    /\ UNCHANGED <<iterVars, langVars>>

\* The record of the node returned in place of a reference to it.
Returned_embedded(nodes, id) ==
    [k |-> "node", v |-> id, items |-> <<>>, index |-> nodes[id].index,
     types |-> nodes[id].types, graph |-> nodes[id].graph,
     included |-> nodes[id].included, props |-> nodes[id].props,
     rev |-> nodes[id].rev]

\* What extend_node_map_from_node returns for the node id of `nodes`:
\* Indexed::new(Node::with_id(id), None).
Returned(nodes, id) == NodeObj(id, None)

\* extend_node_map_from_node returns the reference to the node.
ReturnNode ==
    /\ Running
    /\ stack # <<>>
    /\ Top.k = "node"
    /\ Top.ph = "rev"
    /\ Top.prop = None
    /\ Top.pi = Len(Top.src.rev)
    /\ LET got == Received(Pop(stack), NodeMapNow, Returned(Store(Top.g), Top.id)) IN
        /\ stack' = got.stack
        /\ SetNodeMap(got.map)
    /\ seen' = Noted(Pop(stack), Returned(Store(Top.g), Top.id))
    /\ UNCHANGED <<doc, status, error, returned, counter>>
    /\ UNCHANGED apiVars
    /\ UNCHANGED <<iterVars, langVars>>

\* A call that got an error from its callee returns it at once.
Propagate ==
    /\ status = "err"
    /\ stack # <<>>
    /\ stack' = Pop(stack)
    /\ UNCHANGED <<doc, status, error, returned, counter, seen>>
    /\ UNCHANGED nodeMapVars
    /\ UNCHANGED apiVars
    /\ UNCHANGED <<iterVars, langVars>>

NoNodeMap == [default |-> EmptyMap, graphs |-> EmptyMap]

\* generate_node_map returns the error: the node map is dropped.
Fail ==
    /\ status = "err"
    /\ stack = <<>>
    /\ returned.kind = "none"
    /\ returned' = [kind |-> "err", map |-> NoNodeMap, nodes |-> EmptyMap,
                    err |-> error, order |-> <<>>]
    /\ UNCHANGED <<doc, stack, status, error, counter, seen>>
    /\ UNCHANGED nodeMapVars
    /\ UNCHANGED apiVars
    /\ UNCHANGED <<iterVars, langVars>>

\* generate_node_map has visited every object: it returns the node map.
Finish ==
    /\ Running
    /\ stack = <<>>
    /\ doc = <<>>
    /\ status' = "ok"
    /\ returned' = [kind |-> "ok", map |-> NodeMapNow, nodes |-> EmptyMap,
                    err |-> NoError, order |-> <<>>]
    /\ UNCHANGED <<doc, stack, error, counter, seen>>
    /\ UNCHANGED nodeMapVars
    /\ UNCHANGED apiVars
    /\ UNCHANGED <<iterVars, langVars>>

\* NodeMap::merge on the returned node map, its HashMaps read in `order`.
Merge(order) ==
    /\ status = "ok"
    /\ status' = "merged"
    /\ returned' = [kind |-> "merged", map |-> returned.map,
                    nodes |-> merge(returned.map.default, returned.map.graphs, order),
                    err |-> NoError, order |-> order]
    /\ UNCHANGED <<doc, stack, error, counter, seen>>
    /\ UNCHANGED nodeMapVars
    /\ UNCHANGED apiVars
    /\ UNCHANGED <<iterVars, langVars>>

NoReturn ==
    [kind |-> "none", map |-> NoNodeMap, nodes |-> EmptyMap, err |-> NoError,
     order |-> <<>>]

NothingSeen ==
    [props |-> {}, graph |-> {}, rev |-> {}, has_graph |-> {}, once |-> {},
     twice |-> {}, decl |-> {}, conflict |-> NoError,
     at_error |-> [map |-> NoNodeMap, doc |-> <<>>, stack |-> <<>>]]

\* NodeMap::new and Namespace::new, before the first object of a document.
Init ==
    /\ doc \in Documents(MaxTop)
    /\ default_graph = EmptyMap
    /\ graphs = EmptyMap
    /\ last = NoCall
    /\ calls = 0
    /\ first_index = EmptyMap
    /\ declared = {}
    /\ iter = NoIter
    /\ yielded = <<>>
    /\ ls = NoLangString
    /\ ls_last = NoLangCall
    /\ stack = <<>>
    /\ status = "run"
    /\ error = NoError
    /\ returned = NoReturn
    /\ counter = 0
    /\ seen = NothingSeen

Next ==
    \/ VisitValue
    \/ VisitList
    \/ EndList
    \/ EnterNode
    \/ EndGraph
    \/ EndIncluded
    \/ BeginProperty
    \/ EndProperty
    \/ EndProperties
    \/ BeginReverse
    \/ EndReverse
    \/ ReturnNode
    \/ Propagate
    \/ Fail
    \/ Finish
    \/ status = "ok" /\ \E order \in MergeOrders(graphs) : Merge(order)

Spec == Init /\ [][Next]_vars

----------------------------------------------------------------------------
(* NodeMap::merge on node maps built through the API. *)

\* The records a graph may hold for id.
RecordsOf(id) == {Plain(id, None), Plain(id, "1"), Full(id, "2"), Other(id, None)}

\* The NodeMapGraphs over the ids I: each id absent or with one of its
\* records.
Stores(I) ==
    UNION {{f \in [S -> UNION {RecordsOf(id) : id \in S}] :
                \A id \in S : f[id] \in RecordsOf(id)} : S \in SUBSET I}

\* The node maps whose named graphs are keyed by ids of I.
NodeMaps(I) ==
    UNION {{[default |-> d, graphs |-> gs] : d \in Stores(I), gs \in [S -> Stores(I)]} :
           S \in SUBSET I}

InitMerge ==
    /\ \E m \in NodeMaps(Ids) :
        /\ default_graph = m.default
        /\ graphs = m.graphs
        /\ returned = [kind |-> "ok", map |-> m, nodes |-> EmptyMap,
                       err |-> NoError, order |-> <<>>]
    /\ last = NoCall
    /\ calls = 0
    /\ first_index = EmptyMap
    /\ declared = DOMAIN graphs
    /\ iter = NoIter
    /\ yielded = <<>>
    /\ ls = NoLangString
    /\ ls_last = NoLangCall
    /\ doc = <<>>
    /\ stack = <<>>
    /\ status = "ok"
    /\ error = NoError
    /\ counter = 0
    /\ seen = NothingSeen

NextMerge == \E order \in MergeOrders(graphs) : Merge(order)

SpecMerge == InitMerge /\ [][NextMerge]_vars

----------------------------------------------------------------------------
(* NodeMapGraph::merge_with among the calls through the API. *)

\* graph.merge_with(other), the HashMap of `other` read in `order`.
MergeWith(g, other, order) ==
    /\ calls < MaxCalls
    /\ g \in GraphKeys
    /\ SetStore(g, merge_with(Store(g), other, order))
    /\ last' = Call("merge_with", g, None, None, other, Ok(EmptyMap))
    /\ calls' = calls + 1
    /\ UNCHANGED <<first_index, declared>>
    /\ UNCHANGED flatVars
    /\ UNCHANGED <<iterVars, langVars>>

\* The stores handed to merge_with: each id absent or with one record.
OtherStores ==
    UNION {{f \in [S -> {Full(id, "2") : id \in S} \cup {Other(id, None) : id \in S}] :
                \A id \in S : f[id].id = id} : S \in SUBSET Ids}

NextWith ==
    \/ NextStore
    \/ \E g \in {None} \cup Ids, other \in OtherStores :
          \E order \in Orders(DOMAIN other) : MergeWith(g, other, order)

SpecWith == InitStore /\ [][NextWith]_vars

----------------------------------------------------------------------------
(* Claims on NodeMapGraph::declare_node and merge_node. *)

\* The last call was declare_node(id, index) on a store where id had a
\* stored index, index was present, and the two differ.
LastDeclareConflicts ==
    /\ last.id \in DOMAIN StoreIn(last.pre, last.g)
    /\ StoreIn(last.pre, last.g)[last.id].index # None
    /\ last.index # None
    /\ StoreIn(last.pre, last.g)[last.id].index # last.index

\* C1: declare_node(id, index) fails with ConflictingIndexes if and only if
\* id has a record with a stored index, index is present and the two differ;
\* the error then carries id, the stored index and the supplied index. In
\* every other case it succeeds and id has a record afterwards.
C1_DeclareFailsIffConflict ==
    last.op = "declare_node" =>
        /\ (~last.ok) <=> LastDeclareConflicts
        /\ ~last.ok =>
              last.err = [node_id |-> last.id,
                          defined_index |-> StoreIn(last.pre, last.g)[last.id].index,
                          conflicting_index |-> last.index]
        /\ last.ok => last.id \in DOMAIN Store(last.g)

C1_Witness ==
    /\ last.op = "declare_node"
    /\ ~last.ok
    /\ last.err = [node_id |-> "a", defined_index |-> "1", conflicting_index |-> "2"]

\* The last call declared again, with the stored index, the node whose
\* declaration had just failed.
LastRedeclaresAfterFailure ==
    /\ last.op = "declare_node"
    /\ last.prev.op = "declare_node"
    /\ ~last.prev.ok
    /\ last.g = last.prev.g
    /\ last.id = last.prev.id
    /\ last.index = last.prev.err.defined_index

\* C2: a declare_node call that fails leaves the node map as it was, and
\* declaring the same node again with the stored index then succeeds and
\* changes nothing.
C2_FailedDeclareChangesNothing ==
    /\ (last.op = "declare_node" /\ ~last.ok) => NodeMapNow = last.pre
    /\ LastRedeclaresAfterFailure => (last.ok /\ NodeMapNow = last.pre)

C2_Witness ==
    /\ LastRedeclaresAfterFailure
    /\ last.ok
    /\ Store(last.g)[last.id].index = "1"
    /\ last.prev.err.conflicting_index = "2"

\* C3: after any sequence of declare_node calls the stored index of a node
\* is the first non-null index ever supplied for it in that graph, and is
\* absent if none was supplied.
C3_IndexIsFirstSupplied ==
    \A g \in GraphKeys : \A id \in DOMAIN Store(g) :
        Store(g)[id].index =
            IF <<g, id>> \in DOMAIN first_index THEN first_index[<<g, id>>] ELSE None

\* A node with a stored index was declared again with no index.
C3_Witness ==
    /\ last.op = "declare_node"
    /\ last.index = None
    /\ last.id \in DOMAIN StoreIn(last.pre, last.g)
    /\ StoreIn(last.pre, last.g)[last.id].index = "2"
    /\ Store(last.g)[last.id].index = "2"

\* The last two calls were merge_node with the same node on the same graph.
LastMergedTwice ==
    /\ last.op = "merge_node"
    /\ last.prev.op = "merge_node"
    /\ last.g = last.prev.g
    /\ last.node = last.prev.node
    /\ last.node.id # None

\* C5: merge_node applied twice with the same node: the forward and reverse
\* properties of the record after the second call are those after the first.
C5_MergeTwiceNoDuplicate ==
    LastMergedTwice =>
        /\ Store(last.g)[last.node.id].props = StoreIn(last.pre, last.g)[last.node.id].props
        /\ Store(last.g)[last.node.id].rev = StoreIn(last.pre, last.g)[last.node.id].rev

C5_Witness ==
    /\ LastMergedTwice
    /\ last.node = Full("a", None)
    /\ Len(Store(last.g)["a"].props["p"]) = 2
    /\ Len(Store(last.g)["a"].rev["p"]) = 1

----------------------------------------------------------------------------
(* Claims on NodeMap::merge. *)

\* The named graphs of the node map m that hold a record for id.
GraphsHolding(m, id) == {g \in DOMAIN m.graphs : id \in DOMAIN m.graphs[g]}

\* The objects of a sequence.
Range(q) == {q[i] : i \in 1..Len(q)}

\* Two records with the same index, types, graph content, included flag
\* and the same objects under every property.
SameRecord(r1, r2) ==
    /\ r1.index = r2.index
    /\ r1.types = r2.types
    /\ r1.graph = r2.graph
    /\ r1.included = r2.included
    /\ \A p \in Props : Range(r1.props[p]) = Range(r2.props[p])

----------------------------------------------------------------------------
(* Claims on generate_node_map. *)

StoreNext(g) == IF g = None THEN default_graph' ELSE graphs'[g]

\* C6: during generate_node_map a record that exists is only extended: it
\* stays in its graph, and keeps every type identifier, its stored index and
\* every (property, value) entry it holds.
C6_RecordsOnlyExtended ==
    [][status = "run" =>
        \A g \in GraphKeys : \A id \in DOMAIN Store(g) :
            /\ g = None \/ g \in DOMAIN graphs'
            /\ id \in DOMAIN StoreNext(g)
            /\ Range(Store(g)[id].types) \subseteq Range(StoreNext(g)[id].types)
            /\ Store(g)[id].index # None => StoreNext(g)[id].index = Store(g)[id].index
            /\ \A p \in Props :
                  Range(Store(g)[id].props[p]) \subseteq Range(StoreNext(g)[id].props[p])
      ]_vars

\* C7: the first index conflict aborts generate_node_map: the error is that
\* conflict, it is what the call returns, no node map is returned, and
\* nothing of the document is visited after the conflicting declaration.
C7_FirstConflictAborts ==
    /\ (status = "err") <=> (seen.conflict # NoError)
    /\ status = "err" =>
          /\ error = seen.conflict
          /\ returned.kind \in {"none", "err"}
          /\ NodeMapNow = seen.at_error.map
          /\ doc = seen.at_error.doc
          /\ Len(stack) <= Len(seen.at_error.stack)
          /\ stack = SubSeq(seen.at_error.stack, 1, Len(stack))
    /\ returned.kind = "err" =>
          /\ status = "err"
          /\ returned.err = seen.conflict
          /\ returned.map = NoNodeMap
    /\ returned.kind \in {"ok", "merged"} => seen.conflict = NoError

\* The conflict was met two calls deep and an object of the document was
\* never visited.
C7_Witness ==
    /\ returned.kind = "err"
    /\ returned.err = ConflictingIndexes("a", "1", "2")
    /\ Len(seen.at_error.stack) = 1
    /\ doc # <<>>

\* The (property, object) pairs a record holds.
PairsOf(rec) == {<<p, o>> : p \in Props, o \in UNION {Range(rec.props[q]) : q \in Props}}
                \cap UNION {{<<p, o>> : o \in Range(rec.props[p])} : p \in Props}

\* History: the pairs the declarations of id in graph g contributed.
DeclaredPairs(g, id) == {<<t[3], t[4]>> : t \in {u \in seen.props : u[1] = g /\ u[2] = id}}

\* History: the edges the reverse properties with subject id contributed.
ReversePairs(g, id) ==
    {<<t[3], NodeObj(t[2], None)>> : t \in {u \in seen.rev : u[1] = g /\ u[4] = id}}

NoRepeat(rec) == \A p \in Props : Cardinality(Range(rec.props[p])) = Len(rec.props[p])

\* C8 as stated: a node id declared several times under the same active
\* graph has one record there, whose forward properties are the union of the
\* flattened pairs of all its declarations, each stored once.
C8_PropertiesAreUnion ==
    status = "ok" =>
        \A t \in seen.twice :
            /\ t[2] \in DOMAIN Store(t[1])
            /\ Store(t[1])[t[2]].id = t[2]
            /\ PairsOf(Store(t[1])[t[2]]) = DeclaredPairs(t[1], t[2])
            /\ NoRepeat(Store(t[1])[t[2]])

\* C8 as amended: the forward properties are the union of the flattened
\* pairs of all the declarations of the node and of the edges installed for
\* the reverse properties that name it as subject, each stored once.
C8_PropertiesAreUnionWithReverse ==
    status = "ok" =>
        \A t \in seen.twice :
            /\ t[2] \in DOMAIN Store(t[1])
            /\ Store(t[1])[t[2]].id = t[2]
            /\ PairsOf(Store(t[1])[t[2]]) =
                  DeclaredPairs(t[1], t[2]) \cup ReversePairs(t[1], t[2])
            /\ NoRepeat(Store(t[1])[t[2]])

\* "a" was declared twice in the default graph, with two different objects
\* of property p.
C8_Witness ==
    /\ status = "ok"
    /\ <<None, "a">> \in seen.twice
    /\ Len(default_graph["a"].props["p"]) = 2
    /\ Cardinality(DeclaredPairs(None, "a")) = 2

\* History: the flattened members the declarations of id in graph g gave.
DeclaredMembers(g, id) == {t[3] : t \in {u \in seen.graph : u[1] = g /\ u[2] = id}}

\* C9: the graph content stored for a node is the union of the flattened
\* members of all its declarations in that graph (none when no declaration
\* had graph content).
C9_GraphContentIsUnion ==
    status = "ok" =>
        \A t \in seen.once :
            /\ t[2] \in DOMAIN Store(t[1])
            /\ Store(t[1])[t[2]].graph =
                  IF t \in seen.has_graph
                  THEN SomeSet(DeclaredMembers(t[1], t[2]))
                  ELSE NoSet

\* "a" was declared twice in the default graph with different graph content.
C9_Witness ==
    /\ status = "ok"
    /\ <<None, "a">> \in seen.twice
    /\ default_graph["a"].graph.some
    /\ Cardinality(default_graph["a"].graph.set) = 2

\* C10: a reverse property p of node A with subject B gives B's record, in
\* A's active graph, the forward edge p -> reference to A, and no record
\* holds a reverse property.
C10_ReverseBecomesForward ==
    status = "ok" =>
        /\ \A t \in seen.rev :
              /\ t[4] \in DOMAIN Store(t[1])
              /\ InSeq(NodeObj(t[2], None), Store(t[1])[t[4]].props[t[3]])
        /\ \A g \in GraphKeys : \A id \in DOMAIN Store(g) :
              Store(g)[id].rev = EmptyProps

C10_Witness ==
    /\ status = "ok"
    /\ <<None, "a", "p", "b">> \in seen.rev
    /\ default_graph["b"].props["p"] = <<NodeObj("a", None)>>
    /\ default_graph["a"].props["p"] = <<>>

\* History: the graph a declaration recorded in seen.decl belongs to: the
\* default graph at top level, the graph keyed by the container's id for a
\* member of its graph content, the container's own graph otherwise.
GraphOf(t) ==
    IF t[1] = "top" THEN None
    ELSE IF t[1] = "graph" THEN t[3]
    ELSE t[2]

\* The <<graph, id>> of every record of the node map.
Records == UNION {{<<g, id>> : id \in DOMAIN Store(g)} : g \in GraphKeys}

\* C11: every node is declared in the graph its active graph names, and only
\* there: the default graph at top level, the graph of its container as a
\* property object, list member, included node or reverse-property subject,
\* and the named graph keyed by the container's id (which exists) as a member
\* of graph content.
C11_DeclaredInActiveGraph ==
    /\ Records = {<<GraphOf(t), t[4]>> : t \in seen.decl}
    /\ \A t \in seen.decl : t[1] = "graph" => t[3] \in DOMAIN graphs

\* "b" was a member of the graph content of "a": it is in the graph "a" and
\* not in the default graph, where "a" is.
C11_Witness ==
    /\ status = "ok"
    /\ <<"graph", None, "a", "b">> \in seen.decl
    /\ "b" \in DOMAIN graphs["a"]
    /\ "b" \notin DOMAIN default_graph
    /\ "a" \in DOMAIN default_graph

\* The objects stored in a sequence of objects, those inside its lists
\* included (lists are one level deep in the documents of the model).
Stored(q) == Range(q) \cup UNION {Range(o.items) : o \in {x \in Range(q) : x.k = "list"}}

\* The objects a record holds as property values, list members and members
\* of its graph content.
ObjectsOf(rec) ==
    UNION {Stored(rec.props[p]) : p \in Props} \cup rec.graph.set

\* C12: every node object stored as a property value, list member or member
\* of graph content is a bare reference: it carries an id and no types,
\* properties, reverse properties, graph content or included nodes.
C12_NodesAreReferences ==
    \A g \in GraphKeys : \A id \in DOMAIN Store(g) :
        \A o \in ObjectsOf(Store(g)[id]) :
            o.k = "node" =>
                /\ o.types = <<>>
                /\ o.props = EmptyProps
                /\ o.rev = EmptyProps
                /\ ~o.graph.some
                /\ ~o.included.some

\* "a" holds the value v under p and, declared again, a reference to itself
\* that has none of its properties.
C12_Witness ==
    /\ status = "ok"
    /\ "a" \in DOMAIN default_graph
    /\ default_graph["a"].props["p"] = <<ValueObj("v", None), NodeObj("a", None)>>

----------------------------------------------------------------------------
(* Claims on NodeMap::graph, declare_graph and the iterators. *)

\* The ids a graph may be looked up with.
GraphIds == Ids \cup Range(BlankSeq)

\* C13: graph(None) is the default graph; graph(Some(id)) is a graph exactly
\* when declare_graph(id) has been called, and it is then the graph stored
\* under id; a graph that graph(Some(id)) returns is still returned after
\* every step.
C13_GraphIffDeclared ==
    /\ [](/\ graph(None) = SomeSet(default_graph)
          /\ \A id \in GraphIds : graph(id).some <=> id \in declared
          /\ \A id \in declared : graph(id) = SomeSet(graphs[id]))
    /\ [][\A id \in GraphIds : graph(id).some => id \in DOMAIN graphs']_vars

\* Graph "a" is declared and holds a record, graph "b" is not declared.
C13_Witness ==
    /\ "a" \in declared
    /\ graph("a").some
    /\ graph("a").set # EmptyMap
    /\ ~graph("b").some
    /\ default_graph # EmptyMap

\* C14: declare_graph(id) for an id that has a named graph changes nothing
\* of the node map; for a new id it adds one empty named graph and changes
\* nothing else.
C14_DeclareGraphIdempotent ==
    last.op = "declare_graph" =>
        IF last.g \in DOMAIN last.pre.graphs
        THEN NodeMapNow = last.pre
        ELSE /\ default_graph = last.pre.default
             /\ DOMAIN graphs = DOMAIN last.pre.graphs \cup {last.g}
             /\ graphs[last.g] = EmptyMap
             /\ \A g \in DOMAIN last.pre.graphs : graphs[g] = last.pre.graphs[g]

\* declare_graph was called for a graph that held a record.
C14_Witness ==
    /\ last.op = "declare_graph"
    /\ last.g \in DOMAIN last.pre.graphs
    /\ last.pre.graphs[last.g] # EmptyMap
    /\ graphs[last.g] # EmptyMap

\* C15: the iterator yields the default graph first, under None, and then
\* every named graph under its id; no graph is yielded twice, and when next
\* has returned None every graph has been yielded.
C15_DefaultGraphFirst ==
    iter.kind # "none" =>
        /\ Len(yielded) >= 1 => yielded[1] = <<None, default_graph>>
        /\ \A i \in 2..Len(yielded) :
              /\ yielded[i][1] # None
              /\ yielded[i][1] \in DOMAIN graphs
              /\ yielded[i][2] = graphs[yielded[i][1]]
        /\ \A i, j \in 1..Len(yielded) : yielded[i][1] = yielded[j][1] => i = j
        /\ iter.done => {yielded[i][1] : i \in 1..Len(yielded)} = GraphKeys

\* The iterator by value went through a node map of two named graphs.
C15_Witness ==
    /\ iter.kind = "value"
    /\ iter.done
    /\ Len(yielded) = 3
    /\ yielded[1][1] = None
    /\ yielded[2][1] = "b"
    /\ yielded[3][1] = "a"

----------------------------------------------------------------------------
(* Claims on LangString. *)

\* The last call would have left the string with no language and no
\* direction.
WouldBeInvalid ==
    \/ ls_last.op \in {"new", "set"}
          /\ ls_last.language = None /\ ls_last.direction = None
    \/ ls_last.op = "set_language"
          /\ ls_last.language = None /\ ls_last.pre.direction = None
    \/ ls_last.op = "set_direction"
          /\ ls_last.direction = None /\ ls_last.pre.language = None

\* C16: a LangString has a language or a direction; new fails when both are
\* absent; a set_language, set_direction or set call fails exactly when it
\* would leave both absent, and a call that fails leaves the string as it
\* was.
C16_LanguageOrDirection ==
    /\ ls.exists => ls.language # None \/ ls.direction # None
    /\ ls_last.op # "none" => ((~ls_last.ok) <=> WouldBeInvalid)
    /\ ~ls_last.ok => ls = ls_last.pre

\* set_language(None) failed on a string with a language and no direction.
C16_Witness ==
    /\ ls_last.op = "set_language"
    /\ ~ls_last.ok
    /\ ls.exists
    /\ ls.language = "en"
    /\ ls.direction = None

----------------------------------------------------------------------------
(* Claims on the merge policy of NodeMapGraph::merge_node and merge_with. *)

\* The last call was merge_node with a node whose id had a record.
LastMergedOntoRecord ==
    /\ last.op = "merge_node"
    /\ last.node.id # None
    /\ last.node.id \in DOMAIN StoreIn(last.pre, last.g)

\* C17: merge_node onto an existing record leaves it with the graph content
\* and the included nodes of the incoming node, also when the incoming node
\* has none.
C17_MergeReplacesGraph ==
    LastMergedOntoRecord =>
        /\ Store(last.g)[last.node.id].graph = last.node.graph
        /\ Store(last.g)[last.node.id].included = last.node.included

\* A record with graph content and included nodes was merged with a node
\* that has none: the record has none.
C17_Witness ==
    /\ LastMergedOntoRecord
    /\ StoreIn(last.pre, last.g)[last.node.id].graph.some
    /\ StoreIn(last.pre, last.g)[last.node.id].included.some
    /\ ~last.node.graph.some
    /\ ~Store(last.g)[last.node.id].graph.some
    /\ ~Store(last.g)[last.node.id].included.some

\* C19: after merge_node onto an existing record its types are the types it
\* held followed by the incoming types, duplicates kept.
C19_MergeAppendsTypes ==
    LastMergedOntoRecord =>
        Store(last.g)[last.node.id].types =
            StoreIn(last.pre, last.g)[last.node.id].types \o last.node.types

\* The same typed node was merged twice: its type is stored twice.
C19_Witness ==
    /\ LastMergedOntoRecord
    /\ LastMergedTwice
    /\ last.node.types = <<"T">>
    /\ Len(Store(last.g)[last.node.id].types) >= 2
    /\ \A i \in 1..Len(Store(last.g)[last.node.id].types) :
          Store(last.g)[last.node.id].types[i] = "T"

\* C18: merge_node changes only the record of the incoming id, which it
\* creates if absent, and changes nothing when the incoming node has no id;
\* merge_with gives the same store for every order in which the records of
\* `other` are visited.
C18_MergeTouchesOneRecord ==
    /\ last.op = "merge_node" =>
          /\ \A g \in GraphKeys \ {last.g} : Store(g) = StoreIn(last.pre, g)
          /\ DOMAIN graphs = DOMAIN last.pre.graphs
          /\ IF last.node.id = None
             THEN Store(last.g) = StoreIn(last.pre, last.g)
             ELSE /\ DOMAIN Store(last.g) =
                        DOMAIN StoreIn(last.pre, last.g) \cup {last.node.id}
                  /\ \A id \in DOMAIN StoreIn(last.pre, last.g) \ {last.node.id} :
                        Store(last.g)[id] = StoreIn(last.pre, last.g)[id]
    /\ last.op = "merge_with" =>
          \A order \in Orders(DOMAIN last.node) :
              Store(last.g) = merge_with(StoreIn(last.pre, last.g), last.node, order)

\* A store of two records was merged into a store that held both ids.
C18_Witness ==
    /\ last.op = "merge_with"
    /\ DOMAIN last.node = {"a", "b"}
    /\ DOMAIN StoreIn(last.pre, last.g) = {"a", "b"}
    /\ Store(last.g) # StoreIn(last.pre, last.g)

----------------------------------------------------------------------------
(* Claims on the references of the node map generate_node_map returns. *)

\* The ids of the node objects among the objects S.
NodeIds(S) == {o.v : o \in {x \in S : x.k = "node"}}

\* The ids of the node objects a record holds in its forward properties,
\* directly or inside a list.
PropertyRefs(rec) == NodeIds(UNION {Stored(rec.props[p]) : p \in Props})

\* C20: after a successful generate_node_map every node referred to in the
\* forward properties of a record of graph g has a record in g, and every
\* node referred to in the graph content of a node n has a record in the
\* named graph keyed by the id of n, which exists.
C20_ReferencesHaveRecords ==
    status = "ok" =>
        \A g \in GraphKeys : \A id \in DOMAIN Store(g) :
            /\ PropertyRefs(Store(g)[id]) \subseteq DOMAIN Store(g)
            /\ Store(g)[id].graph.some =>
                  /\ id \in DOMAIN graphs
                  /\ NodeIds(Store(g)[id].graph.set) \subseteq DOMAIN graphs[id]

\* "a" refers to "b" in its graph content and, inside a list, in its
\* property p; "b" has a record in graph "a" and one in the default graph.
C20_Witness ==
    /\ status = "ok"
    /\ "a" \in DOMAIN default_graph
    /\ NodeObj("b", None) \in default_graph["a"].graph.set
    /\ default_graph["a"].props["p"] = <<ListObj(<<NodeObj("b", None)>>, "1")>>
    /\ "b" \in DOMAIN graphs["a"]
    /\ "b" \in DOMAIN default_graph

----------------------------------------------------------------------------
(* Claims on indexes that differ between graphs. *)

\* The index of id after the default graph's `index` has met, in fold order,
\* the records of id in the named graphs gs: the last one present.
RECURSIVE MergedIndex(_, _, _, _)
MergedIndex(index, gs, order, id) ==
    IF order = <<>> THEN index
    ELSE LET g == Head(order)[1] IN
         MergedIndex(IF id \in DOMAIN gs[g] /\ gs[g][id].index # None
                     THEN gs[g][id].index ELSE index,
                     gs, Tail(order), id)

\* The id has records with two different indexes in two graphs.
DiffersAcrossGraphs(id) ==
    \E g1, g2 \in GraphKeys :
        /\ g1 # g2
        /\ id \in DOMAIN Store(g1) /\ id \in DOMAIN Store(g2)
        /\ Store(g1)[id].index # None /\ Store(g2)[id].index # None
        /\ Store(g1)[id].index # Store(g2)[id].index

\* C21: index conflicts are detected per graph: generate_node_map fails only
\* on an index that differs from the one stored for the id in the graph of
\* the declaration, so indexes that differ between graphs do not make it
\* fail, and NodeMap::merge then returns no error: every merged record has
\* the last index met in fold order, the others are lost.
C21_ConflictsArePerGraph ==
    /\ status = "err" =>
          \E t \in DOMAIN first_index :
              /\ t[2] = error.node_id
              /\ first_index[t] = error.defined_index
              /\ t[2] \in DOMAIN Store(t[1])
              /\ Store(t[1])[t[2]].index = error.defined_index
              /\ error.conflicting_index \notin {None, error.defined_index}
              /\ t[1] = (IF seen.at_error.stack = <<>> THEN None
                         ELSE LET f == seen.at_error.stack[Len(seen.at_error.stack)]
                              IN IF f.k = "node" /\ f.ph = "graph" THEN f.id ELSE f.g)
    /\ returned.kind = "merged" =>
          /\ returned.err = NoError
          /\ \A id \in DOMAIN returned.nodes :
                returned.nodes[id].index =
                    MergedIndex(IF id \in DOMAIN returned.map.default
                                THEN returned.map.default[id].index ELSE None,
                                returned.map.graphs, returned.order, id)

\* "a" was declared with index "1" in the default graph and with index "2"
\* in graph "a": the run succeeded and the merged record of "a" has "2".
C21_Witness ==
    /\ returned.kind = "merged"
    /\ DiffersAcrossGraphs("a")
    /\ default_graph["a"].index = "1"
    /\ graphs["a"]["a"].index = "2"
    /\ returned.nodes["a"].index = "2"

====
